---- MODULE Spec2Model ----
(***************************************************************************)
(* A model of GHEtool's hourly load data:                                  *)
(*   GHEtool/VariableClasses/LoadData/GeothermalLoad/HourlyGeothermalLoad  *)
(*   GHEtool/VariableClasses/LoadData/_LoadData                            *)
(*                                                                         *)
(* The year is scaled down: it has NMonths months and HoursPerYear hours   *)
(* (8760 in the source), with a calendar of unequal months (UPM) and the   *)
(* "all months equal" calendar of the same total.                          *)
(*                                                                         *)
(* Python values are records [kind, elems]; the elements of a sequence     *)
(* are records [t, v]: a number, NaN, a non-numeric entry, or a nested     *)
(* row.  Arrays and lists are objects on a heap, so that two references    *)
(* to one object are told from two equal objects.                          *)
(***************************************************************************)
EXTENDS Integers, Sequences, FiniteSets, TLC

VARIABLES
    loads,             \* the HourlyGeothermalLoad instances, by slot
    heap,              \* object id -> the array, list or tuple object
    all_months_equal,  \* the calendar mode (configuration of the base class)
    op,                \* the last operation called and its arguments
    ret,               \* what the last operation returned or raised
    nmut,              \* in-place changes the caller has made so far
    arg                \* the input of the pure functions (SpecResample, SpecCheck)

vars == <<loads, heap, all_months_equal, op, ret, nmut, arg>>

-----------------------------------------------------------------------------
(* Bounds *)

NMonths == 3
MaxVal == 1
MaxMutations == 1

-----------------------------------------------------------------------------
(* The calendar (base class, not part of the sources at hand) *)

\* hours per month of the scaled non-leap year: a long first month, a short
\* second month, as January and February; the total is 2 * NMonths
UPM_year(m) == IF m = 1 THEN 3 ELSE IF m = 2 THEN 1 ELSE 2

\* UPM: the hours per month in the current mode (730 each when all months
\* are equal, the calendar's otherwise)
UPM(ame) == [m \in 1..NMonths |-> IF ame THEN 2 ELSE UPM_year(m)]

RECURSIVE SumTo(_, _)
SumTo(f, n) == IF n = 0 THEN 0 ELSE f[n] + SumTo(f, n - 1)

\* the length every load must have (8760)
HoursPerYear == SumTo(UPM(FALSE), NMonths)

-----------------------------------------------------------------------------
(* Values *)

Num(n) == [t |-> "num", v |-> n]
NaN == [t |-> "nan", v |-> 0]
Str == [t |-> "str", v |-> 0]
Row(n) == [t |-> "row", v |-> n]     \* an inner sequence [n, n]

PyNone == [kind |-> "None", elems |-> <<>>]
PyFloat(n) == [kind |-> "float", elems |-> <<Num(n)>>]
ZeroDim(n) == [kind |-> "ndarray0", elems |-> <<Num(n)>>]
PySeq(k, s) == [kind |-> k, elems |-> s]

SeqKinds == {"ndarray", "list", "tuple"}
Mutable(o) == o.kind \in {"ndarray", "list"}

IsNum(e) == e.t = "num"

\* float arithmetic with NaN: NaN propagates, and compares false with all
AddE(x, y) == IF x.t = "nan" \/ y.t = "nan" THEN NaN ELSE [t |-> x.t, v |-> x.v + y.v]
SubE(x, y) == IF x.t = "nan" \/ y.t = "nan" THEN NaN ELSE [t |-> x.t, v |-> x.v - y.v]
LtE(x, y) == x.t # "nan" /\ y.t # "nan" /\ x.v < y.v
EqE(x, y) == x.t # "nan" /\ y.t # "nan" /\ x.v = y.v
MinE(x, y) == IF x.t = "nan" THEN x ELSE IF y.t = "nan" THEN y
              ELSE IF y.v < x.v THEN y ELSE x
MaxE(x, y) == IF x.t = "nan" THEN x ELSE IF y.t = "nan" THEN y
              ELSE IF y.v > x.v THEN y ELSE x

\* the number a reduction sees in an entry: a nested row [n, n] reduces to n
Flat(e) == IF e.t = "row" THEN Num(e.v) ELSE e

RECURSIVE np_min(_)
np_min(s) == IF Len(s) = 1 THEN Flat(s[1]) ELSE MinE(Flat(s[1]), np_min(Tail(s)))

RECURSIVE np_max(_)
np_max(s) == IF Len(s) = 1 THEN Flat(s[1]) ELSE MaxE(Flat(s[1]), np_max(Tail(s)))

RECURSIVE np_sum(_)
np_sum(s) == IF s = <<>> THEN Num(0) ELSE AddE(s[1], np_sum(Tail(s)))

\* np.array(x): a new ndarray with x's entries; of a scalar (or of a
\* zero-dimensional array), a zero-dimensional array
np_array(x) ==
    IF x.kind \in {"float", "ndarray0"} THEN [kind |-> "ndarray0", elems |-> x.elems]
    ELSE [kind |-> "ndarray", elems |-> x.elems]

np_zeros == [kind |-> "ndarray", elems |-> [i \in 1..HoursPerYear |-> Num(0)]]

-----------------------------------------------------------------------------
(* HourlyGeothermalLoad._check_input: "True", "False", or the exception    *)
(* the call ends with                                                      *)

_check_input(load_array) ==
    IF load_array.kind \notin (SeqKinds \cup {"ndarray0"}) THEN "False"
    ELSE IF load_array.kind = "ndarray0" THEN "TypeError"   \* len() of unsized object
    ELSE IF Len(load_array.elems) # HoursPerYear THEN "False"
    ELSE IF \E i \in 1..HoursPerYear : load_array.elems[i].t = "str"
         THEN "TypeError"                                   \* np.min / < on strings
    ELSE IF LtE(np_min(load_array.elems), Num(0)) THEN "False"
    ELSE "True"

-----------------------------------------------------------------------------
(* The caller's objects *)

Hours == 1..HoursPerYear

\* what the caller passes as a load: object k of the heap is Pool[k]
Pool == <<
    PyFloat(5),                                                       \* a scalar
    ZeroDim(5),                                                       \* a zero-dimensional array
    PySeq("list", [i \in 1..(HoursPerYear - 1) |-> Num(0)]),          \* one hour short
    PySeq("list", [i \in Hours |-> IF i = 2 THEN Num(-1) ELSE Num(1)]), \* one negative value
    PySeq("ndarray", [i \in Hours |-> Num(i)]),
    PySeq("list", [i \in Hours |-> Num(2 * i)]),
    PySeq("ndarray", [i \in Hours |-> IF i = 1 THEN NaN ELSE IF i = 2 THEN Num(-1) ELSE Num(0)])
>>

NPool == Len(Pool)
Args == 1..NPool
None == 0                 \* the argument left out

Insts == {1, 2}
\* the instance the caller assigns loads and a start month to; the other one
\* is constructed, read, compared and merged
Assignable == {1}
\* the constructor calls the caller makes: <<heating_load, cooling_load,
\* simulation_period, dhw>>, a load being an object of the pool or None; the
\* default call, a call with two arrays, and calls with one bad load
\* (dhw / HoursPerYear is a whole number)
CtorCalls == {<<None, None, 20, 0>>, <<5, 6, 25, HoursPerYear>>,
              <<1, None, 20, 0>>, <<None, 3, 20, 0>>, <<4, None, 20, 0>>, <<None, 2, 20, 0>>}
StartMonths == 1..NMonths

\* the two arrays the constructor makes for instance i
OwnH(i) == NPool + 2 * i - 1
OwnC(i) == NPool + 2 * i
ObjIds == 1..(NPool + 2 * Cardinality(Insts))

NoLoad == [alive |-> FALSE]
NoOp == [name |-> "none", i |-> 0, j |-> 0, a |-> 0, b |-> 0]
Ok == [tag |-> "ok", ref |-> 0]
Raise(e) == [tag |-> e, ref |-> 0]

\* the exception a setter raises when _check_input gave r instead of True
SetterError(r) == IF r = "False" THEN "ValueError" ELSE r

Init ==
    /\ loads = [i \in Insts |-> NoLoad]
    /\ heap = [k \in ObjIds |-> IF k <= NPool THEN Pool[k] ELSE PyNone]
    /\ all_months_equal = FALSE
    /\ op = NoOp
    /\ ret = Ok
    /\ nmut = 0
    /\ arg = PyNone

-----------------------------------------------------------------------------
(* HourlyGeothermalLoad.__init__                                            *)
(*                                                                         *)
(* The initialiser of the base class keeps simulation_period, and the base *)
(* class holds dhw, start_month and the calendar (the _LoadData of the     *)
(* sources at hand predates these attributes: its __init__ takes           *)
(* hourly_resolution only).  A constructor call that raises leaves no      *)
(* instance behind.                                                        *)

\* the array the constructor hands to a setter: zeros, or np.array(argument)
InitArray(a) == IF a = None THEN np_zeros ELSE np_array(heap[a])

Construct(i, h, c, sp, d) ==
    LET hv == InitArray(h)
        cv == InitArray(c)
        r1 == _check_input(hv)
        r2 == _check_input(cv)
    IN  /\ ~loads[i].alive
        /\ op' = [name |-> "__init__", i |-> i, j |-> 0, a |-> h, b |-> c]
        /\ IF r1 # "True"
           THEN /\ ret' = Raise(SetterError(r1))
                /\ UNCHANGED <<loads, heap>>
           ELSE IF r2 # "True"
           THEN /\ ret' = Raise(SetterError(r2))
                /\ UNCHANGED <<loads, heap>>
           ELSE /\ ret' = Ok
                /\ heap' = [heap EXCEPT ![OwnH(i)] = hv, ![OwnC(i)] = cv]
                /\ loads' = [loads EXCEPT ![i] =
                       [alive |-> TRUE,
                        _hourly_heating_load |-> OwnH(i),
                        _hourly_cooling_load |-> OwnC(i),
                        simulation_period |-> sp,
                        dhw |-> d,
                        start_month |-> 1]]
        /\ UNCHANGED <<all_months_equal, nmut, arg>>

-----------------------------------------------------------------------------
(* The setters: hourly_heating_load / set_hourly_heating and                *)
(* hourly_cooling_load / set_hourly_cooling                                 *)

\* the object the instance stores when the check passes: the one passed in
Stored(load) == load

SetHeating(i, load) ==
    LET r == _check_input(heap[load])
    IN  /\ loads[i].alive
        /\ op' = [name |-> "set_hourly_heating", i |-> i, j |-> 0, a |-> load, b |-> 0]
        /\ IF r = "True"
           THEN /\ loads' = [loads EXCEPT ![i]._hourly_heating_load = Stored(load)]
                /\ ret' = Ok
           ELSE /\ ret' = Raise(SetterError(r))
                /\ UNCHANGED loads
        /\ UNCHANGED <<heap, all_months_equal, nmut, arg>>

SetCooling(i, load) ==
    LET r == _check_input(heap[load])
    IN  /\ loads[i].alive
        /\ op' = [name |-> "set_hourly_cooling", i |-> i, j |-> 0, a |-> load, b |-> 0]
        /\ IF r = "True"
           THEN /\ loads' = [loads EXCEPT ![i]._hourly_cooling_load = Stored(load)]
                /\ ret' = Ok
           ELSE /\ ret' = Raise(SetterError(r))
                /\ UNCHANGED loads
        /\ UNCHANGED <<heap, all_months_equal, nmut, arg>>

\* the start month is configuration of the base class
SetStartMonth(i, m) ==
    /\ loads[i].alive
    /\ loads[i].start_month # m
    /\ op' = [name |-> "start_month", i |-> i, j |-> 0, a |-> m, b |-> 0]
    /\ loads' = [loads EXCEPT ![i].start_month = m]
    /\ ret' = Ok
    /\ UNCHANGED <<heap, all_months_equal, nmut, arg>>

-----------------------------------------------------------------------------
(* The start month: _start_hour and correct_for_start_month *)

_start_hour(L) == SumTo(UPM(all_months_equal), L.start_month - 1)

\* array[start:] followed by array[:start], as np.concatenate builds it
Rotated(s, start) == [k \in 1..Len(s) |-> s[((k - 1 + start) % Len(s)) + 1]]

\* the array itself when the year starts in month 1 (ref names the object
\* returned: 0 is a new one), a new rotated ndarray otherwise
correct_for_start_month(L, array, ref) ==
    IF L.start_month = 1
    THEN [tag |-> "ok", val |-> array, ref |-> ref]
    ELSE [tag |-> "ok", val |-> PySeq("ndarray", Rotated(array.elems, _start_hour(L))), ref |-> 0]

-----------------------------------------------------------------------------
(* The accessors *)

\* array + scalar: elementwise on an ndarray; a list or a tuple cannot be
\* added to a float
AddScalar(array, x) ==
    IF array.kind = "ndarray"
    THEN [tag |-> "ok", val |-> PySeq("ndarray", [k \in 1..Len(array.elems) |-> AddE(array.elems[k], x)])]
    ELSE [tag |-> "TypeError"]

hourly_heating_load(L) ==
    LET sum == AddScalar(heap[L._hourly_heating_load], Num(L.dhw \div HoursPerYear))
    IN  IF sum.tag # "ok" THEN Raise(sum.tag)
        ELSE correct_for_start_month(L, sum.val, 0)

hourly_cooling_load(L) ==
    correct_for_start_month(L, heap[L._hourly_cooling_load], L._hourly_cooling_load)

\* HourlyGeothermalLoad.imbalance: np.sum(cooling - heating); the cooling
\* array may be a list, the heating array is an ndarray
imbalance(L) ==
    LET c == hourly_cooling_load(L)
        h == hourly_heating_load(L)
    IN  IF h.tag # "ok" THEN Raise(h.tag)
        ELSE [tag |-> "ok", ref |-> 0,
              val |-> np_sum([k \in Hours |-> SubE(c.val.elems[k], h.val.elems[k])])]

-----------------------------------------------------------------------------
(* resample_to_monthly *)

cumsum(f, n) == [k \in 1..n |-> SumTo(f, k)]

\* np.array_split(s, idx): s[:idx[1]], s[idx[1]:idx[2]], ..., s[idx[n]:]
array_split(s, idx) ==
    [k \in 1..(Len(idx) + 1) |->
        SubSeq(s, (IF k = 1 THEN 0 ELSE idx[k - 1]) + 1,
                  IF k = Len(idx) + 1 THEN Len(s) ELSE idx[k])]

\* resample_to_monthly returning <<baseload, peak>>
resample_swapped(ame, hourly_load) ==
    LET data == array_split(hourly_load, cumsum(UPM(ame), NMonths - 1))
    IN  <<[k \in 1..Len(data) |-> np_sum(data[k])],
          [k \in 1..Len(data) |-> np_max(data[k])]>>

\* <<peak, baseload>>: the maximum and the sum of every chunk (over axis 1
\* of the chunks when all months are equal, chunk by chunk otherwise)
resample_to_monthly(ame, hourly_load) ==
    LET data == array_split(hourly_load, cumsum(UPM(ame), NMonths - 1))
    IN  <<[k \in 1..Len(data) |-> np_max(data[k])],
          [k \in 1..Len(data) |-> np_sum(data[k])]>>

\* a monthly view of an accessor's array: part 1 the peaks, part 2 the baseloads
Monthly(load, part) ==
    IF load.tag # "ok" THEN Raise(load.tag)
    ELSE [tag |-> "ok", ref |-> 0,
          val |-> PySeq("ndarray", resample_to_monthly(all_months_equal, load.val.elems)[part])]

baseload_cooling(L) == Monthly(hourly_cooling_load(L), 2)
baseload_heating(L) == Monthly(hourly_heating_load(L), 2)
peak_cooling(L) == Monthly(hourly_cooling_load(L), 1)
peak_heating(L) == Monthly(hourly_heating_load(L), 1)

\* _LoadData.imbalance: np.sum(self.baseload_cooling() - self.baseload_heating()).
\* The hourly class defines baseload_cooling as a property: reading it gives
\* an array, and calling the array raises TypeError
LoadData_imbalance(L) ==
    LET b == baseload_cooling(L)
    IN  IF b.tag # "ok" THEN Raise(b.tag) ELSE Raise("TypeError")

-----------------------------------------------------------------------------
(* __eq__ *)

\* np.array_equal: same shape and every pair of entries equal (NaN equals nothing)
array_equal(a1, a2) ==
    /\ Len(a1.elems) = Len(a2.elems)
    /\ \A k \in 1..Len(a1.elems) : EqE(a1.elems[k], a2.elems[k])

\* self == other for two hourly loads
__eq__(self, other) ==
    IF ~array_equal(hourly_cooling_load(self).val, hourly_cooling_load(other).val)
    THEN [tag |-> "ok", ref |-> 0, val |-> FALSE]
    ELSE IF hourly_heating_load(self).tag # "ok" THEN Raise(hourly_heating_load(self).tag)
    ELSE IF hourly_heating_load(other).tag # "ok" THEN Raise(hourly_heating_load(other).tag)
    ELSE IF ~array_equal(hourly_heating_load(self).val, hourly_heating_load(other).val)
    THEN [tag |-> "ok", ref |-> 0, val |-> FALSE]
    ELSE [tag |-> "ok", ref |-> 0, val |-> self.simulation_period = other.simulation_period]

-----------------------------------------------------------------------------
(* __add__ *)

\* x + y of two stored arrays: elementwise once one of them is an ndarray,
\* the concatenation of two lists or of two tuples, a TypeError of a list
\* and a tuple
PyAdd(x, y) ==
    IF x.kind = "ndarray" \/ y.kind = "ndarray"
    THEN [tag |-> "ok", val |-> PySeq("ndarray", [k \in 1..Len(x.elems) |-> AddE(x.elems[k], y.elems[k])])]
    ELSE IF x.kind = y.kind
    THEN [tag |-> "ok", val |-> PySeq(x.kind, x.elems \o y.elems)]
    ELSE [tag |-> "TypeError"]

Max(a, b) == IF a >= b THEN a ELSE b

\* self + other for two hourly loads: the constructor call on the sums
__add__(self, other) ==
    LET h == PyAdd(heap[self._hourly_heating_load], heap[other._hourly_heating_load])
        c == PyAdd(heap[self._hourly_cooling_load], heap[other._hourly_cooling_load])
    IN  IF h.tag # "ok" THEN Raise(h.tag)
        ELSE IF c.tag # "ok" THEN Raise(c.tag)
        ELSE IF _check_input(np_array(h.val)) # "True"
        THEN Raise(SetterError(_check_input(np_array(h.val))))
        ELSE IF _check_input(np_array(c.val)) # "True"
        THEN Raise(SetterError(_check_input(np_array(c.val))))
        ELSE [tag |-> "ok", ref |-> 0,
              val |-> [kind |-> "HourlyGeothermalLoad",
                       _hourly_heating_load |-> np_array(h.val),
                       _hourly_cooling_load |-> np_array(c.val),
                       simulation_period |-> Max(self.simulation_period, other.simulation_period),
                       dhw |-> self.dhw + other.dhw,
                       warned |-> self.simulation_period # other.simulation_period]]

\* the operands that are no hourly load, by what their __add__ does with a
\* load: there is none (None), it returns NotImplemented (a number), it
\* raises TypeError (a string), it returns a combined load (another load class)
Others == {"no __add__", "NotImplemented", "TypeError", "combines"}

\* self + other for another operand: other.__add__(self), a TypeError
\* raised again; Python turns a NotImplemented of both sides into a TypeError
add_other(other) ==
    CASE other = "no __add__" -> Raise("AttributeError")
      [] other = "NotImplemented" -> Raise("TypeError")
      [] other = "TypeError" -> Raise("TypeError")
      [] other = "combines" -> [tag |-> "ok", ref |-> 0, val |-> [kind |-> "OtherLoad"]]

-----------------------------------------------------------------------------
(* The calls that read *)

Reads(name, i, j, result) ==
    /\ op' = [name |-> name, i |-> i, j |-> j, a |-> 0, b |-> 0]
    /\ ret' = result
    /\ UNCHANGED <<loads, heap, all_months_equal, nmut, arg>>

ReadHeating(i) == loads[i].alive /\ Reads("hourly_heating_load", i, 0, hourly_heating_load(loads[i]))
ReadCooling(i) == loads[i].alive /\ Reads("hourly_cooling_load", i, 0, hourly_cooling_load(loads[i]))
ReadImbalance(i) == loads[i].alive /\ Reads("imbalance", i, 0, imbalance(loads[i]))
Eq(i, j) == loads[i].alive /\ loads[j].alive /\ Reads("__eq__", i, j, __eq__(loads[i], loads[j]))
EqOther(i) == loads[i].alive /\ Reads("__eq__", i, 0, [tag |-> "ok", ref |-> 0, val |-> FALSE])
Add(i, j) == loads[i].alive /\ loads[j].alive /\ Reads("__add__", i, j, __add__(loads[i], loads[j]))
AddOther(i, o) ==
    /\ loads[i].alive
    /\ op' = [name |-> "__add__", i |-> i, j |-> 0, a |-> 0, b |-> 0, other |-> o]
    /\ ret' = add_other(o)
    /\ UNCHANGED <<loads, heap, all_months_equal, nmut, arg>>

-----------------------------------------------------------------------------
(* The caller changes, in place, an array it holds: one it passed in and an *)
(* instance stores, or the one the last call returned                       *)

Held(k) ==
    \/ k <= NPool /\ \E i \in Insts : loads[i].alive /\
           k \in {loads[i]._hourly_heating_load, loads[i]._hourly_cooling_load}
    \/ ret.tag = "ok" /\ ret.ref = k

CallerMutate(k) ==
    /\ nmut < MaxMutations
    /\ Held(k)
    /\ Mutable(heap[k])
    /\ heap' = [heap EXCEPT ![k].elems[1] = Num(-1)]
    /\ nmut' = nmut + 1
    /\ op' = [name |-> "caller", i |-> 0, j |-> 0, a |-> k, b |-> 0]
    /\ ret' = Ok
    /\ UNCHANGED <<loads, all_months_equal, arg>>

Next ==
    \/ \E i \in Insts, c \in CtorCalls : Construct(i, c[1], c[2], c[3], c[4])
    \/ \E i \in Assignable, load \in Args : SetHeating(i, load)
    \/ \E i \in Assignable, load \in Args : SetCooling(i, load)
    \/ \E i \in Assignable, m \in StartMonths : SetStartMonth(i, m)
    \/ \E i \in Insts : ReadHeating(i)
    \/ \E i \in Insts : ReadCooling(i)
    \/ \E i \in Insts : ReadImbalance(i)
    \/ \E i, j \in Insts : Eq(i, j)
    \/ \E i \in Assignable : EqOther(i)
    \/ \E i, j \in Insts : Add(i, j)
    \/ \E i \in Assignable, o \in Others : AddOther(i, o)
    \/ \E k \in ObjIds : CallerMutate(k)

Spec == Init /\ [][Next]_vars

-----------------------------------------------------------------------------
(* resample_to_monthly on its own: every series with values 0..MaxVal, in  *)
(* both calendar modes                                                     *)

Series == {PySeq("ndarray", f) : f \in [Hours -> {Num(v) : v \in 0..MaxVal}]}

InitResample ==
    /\ loads = [i \in Insts |-> NoLoad]
    /\ heap = [k \in ObjIds |-> IF k <= NPool THEN Pool[k] ELSE PyNone]
    /\ all_months_equal \in BOOLEAN
    /\ op = NoOp
    /\ ret = Ok
    /\ nmut = 0
    /\ arg \in Series

Resample ==
    /\ op = NoOp
    /\ op' = [name |-> "resample_to_monthly", i |-> 0, j |-> 0, a |-> 0, b |-> 0]
    /\ ret' = [tag |-> "ok", ref |-> 0,
               val |-> resample_to_monthly(all_months_equal, arg.elems)]
    /\ UNCHANGED <<loads, heap, all_months_equal, nmut, arg>>

SpecResample == InitResample /\ [][Resample]_vars

-----------------------------------------------------------------------------
(* _check_input on its own: scalars, zero-dimensional arrays, and arrays,  *)
(* lists and tuples of every length up to HoursPerYear + 1                 *)

\* the entries of a one-level candidate, and of a nested one
FlatEntries == {Num(-1), Num(0), Num(1), NaN, Str}
RowEntries == {Row(-1), Row(0)}

\* the sequences of length n with k entries drawn freely and the others 0
Candidates ==
    {PyFloat(5), PyFloat(-1), ZeroDim(5), PyNone}
    \cup {PySeq(k, f) : k \in SeqKinds,
                        f \in UNION {[1..n -> {Num(0)}] : n \in 0..(HoursPerYear + 1)}}
    \cup {PySeq(k, [h \in Hours |-> IF h = i THEN e ELSE IF h = j THEN d ELSE Num(0)]) :
              k \in SeqKinds, i \in Hours, j \in Hours, e \in FlatEntries, d \in FlatEntries}
    \cup {PySeq(k, [h \in Hours |-> IF h = i THEN e ELSE Row(0)]) :
              k \in SeqKinds, i \in Hours, e \in RowEntries}

InitCheck ==
    /\ loads = [i \in Insts |-> NoLoad]
    /\ heap = [k \in ObjIds |-> IF k <= NPool THEN Pool[k] ELSE PyNone]
    /\ all_months_equal = FALSE
    /\ op = NoOp
    /\ ret = Ok
    /\ nmut = 0
    /\ arg \in Candidates

\* the call: its boolean, or the exception it ends with
CheckInput ==
    LET r == _check_input(arg)
    IN  /\ op = NoOp
        /\ op' = [name |-> "_check_input", i |-> 0, j |-> 0, a |-> 0, b |-> 0]
        /\ ret' = IF r \in {"True", "False"}
                  THEN [tag |-> "ok", ref |-> 0, val |-> (r = "True")]
                  ELSE Raise(r)
        /\ UNCHANGED <<loads, heap, all_months_equal, nmut, arg>>

SpecCheck == InitCheck /\ [][CheckInput]_vars

-----------------------------------------------------------------------------
(* The monthly views on their own: an instance constructed with a series   *)
(* as heating and as cooling load, under the calendar of unequal months,   *)
(* with every start month                                                  *)

InitMonthly ==
    /\ arg \in Series
    /\ \E m \in StartMonths, d \in {0, HoursPerYear} :
           loads = [i \in Insts |->
                       IF i = 1
                       THEN [alive |-> TRUE,
                             _hourly_heating_load |-> OwnH(1),
                             _hourly_cooling_load |-> OwnC(1),
                             simulation_period |-> 20,
                             dhw |-> d,
                             start_month |-> m]
                       ELSE NoLoad]
    /\ heap = [k \in ObjIds |->
                  IF k <= NPool THEN Pool[k]
                  ELSE IF k \in {OwnH(1), OwnC(1)} THEN np_array(arg)
                  ELSE PyNone]
    /\ all_months_equal = FALSE
    /\ op = NoOp
    /\ ret = Ok
    /\ nmut = 0

ReadBaseloadHeating == op = NoOp /\ Reads("baseload_heating", 1, 0, baseload_heating(loads[1]))
ReadBaseloadCooling == op = NoOp /\ Reads("baseload_cooling", 1, 0, baseload_cooling(loads[1]))
ReadPeakHeating == op = NoOp /\ Reads("peak_heating", 1, 0, peak_heating(loads[1]))
ReadPeakCooling == op = NoOp /\ Reads("peak_cooling", 1, 0, peak_cooling(loads[1]))

NextMonthly ==
    \/ ReadBaseloadHeating
    \/ ReadBaseloadCooling
    \/ ReadPeakHeating
    \/ ReadPeakCooling

SpecMonthly == InitMonthly /\ [][NextMonthly]_vars

-----------------------------------------------------------------------------
(* Claims *)

\* the hours (1-based) of month m of a calendar hpm
MonthHours(hpm, m) == {h \in Hours : SumTo(hpm, m - 1) < h /\ h <= SumTo(hpm, m)}

RECURSIVE SumOver(_, _)
SumOver(s, S) ==
    IF S = {} THEN 0
    ELSE LET h == CHOOSE x \in S : TRUE IN s[h].v + SumOver(s, S \ {h})

MaxOver(s, S) == CHOOSE x \in {s[h].v : h \in S} : \A h \in S : s[h].v <= x

\* a load as the data model has it: a one-level sequence of HoursPerYear
\* numbers, none below 0
ValidLoad(o) ==
    /\ o.kind \in SeqKinds
    /\ Len(o.elems) = HoursPerYear
    /\ \A k \in Hours : IsNum(o.elems[k]) /\ o.elems[k].v >= 0

\* a scalar, a sequence of another length, or one with a negative value
RejectedLoad(o) ==
    \/ o.kind = "float"
    \/ o.kind \in SeqKinds /\ Len(o.elems) # HoursPerYear
    \/ o.kind \in SeqKinds /\ \E k \in 1..Len(o.elems) : IsNum(o.elems[k]) /\ o.elems[k].v < 0

raw_heating(L) == heap[L._hourly_heating_load]
raw_cooling(L) == heap[L._hourly_cooling_load]

\* every instance that exists stores two loads of the data model, and the
\* caller has changed no array in place
WellFormed ==
    /\ nmut = 0
    /\ \A i \in Insts : loads[i].alive =>
           ValidLoad(raw_heating(loads[i])) /\ ValidLoad(raw_cooling(loads[i]))

\* C1: an attempt to install a scalar, a sequence of another length than
\* HoursPerYear or one with a negative value, through the constructor or a
\* setter, raises ValueError, and leaves the stored arrays of every instance
\* as they were.
C1_InvalidLoadRaises ==
    [][ LET bad(k) == k # None /\ RejectedLoad(heap[k])
        IN  (/\ op'.name \in {"__init__", "set_hourly_heating", "set_hourly_cooling"}
             /\ (bad(op'.a) \/ bad(op'.b)))
            => /\ ret'.tag = "ValueError"
               /\ \A i \in Insts : loads[i].alive =>
                      /\ loads'[i].alive
                      /\ heap'[loads'[i]._hourly_heating_load] = raw_heating(loads[i])
                      /\ heap'[loads'[i]._hourly_cooling_load] = raw_cooling(loads[i]) ]_vars

\* C2: after construction, setter calls, reads and merges, both stored
\* series of every instance (the result of a merge included) have
\* HoursPerYear entries, each a number >= 0.
C2_StoredSeriesValid ==
    nmut = 0 =>
        /\ \A i \in Insts : loads[i].alive =>
               ValidLoad(raw_heating(loads[i])) /\ ValidLoad(raw_cooling(loads[i]))
        /\ (op.name = "__add__" /\ op.j # 0 /\ ret.tag = "ok") =>
               /\ ValidLoad(ret.val._hourly_heating_load)
               /\ ValidLoad(ret.val._hourly_cooling_load)

\* C3: a + b of two hourly loads, whatever containers their loads were set
\* with, is an instance with the elementwise sums of the raw heating and of
\* the raw cooling arrays, the larger simulation period and the sum of dhw.
C3_MergeSums ==
    (op.name = "__add__" /\ op.j # 0 /\ WellFormed) =>
        LET a == loads[op.i]
            b == loads[op.j]
        IN  /\ ret.tag = "ok"
            /\ ret.val._hourly_heating_load.elems =
                   [k \in Hours |-> Num(raw_heating(a).elems[k].v + raw_heating(b).elems[k].v)]
            /\ ret.val._hourly_cooling_load.elems =
                   [k \in Hours |-> Num(raw_cooling(a).elems[k].v + raw_cooling(b).elems[k].v)]
            /\ ret.val.simulation_period = Max(a.simulation_period, b.simulation_period)
            /\ ret.val.dhw = a.dhw + b.dhw

\* C4: every instance owns its stored arrays: an in-place change the caller
\* makes to an array it passed in or was returned changes the stored state
\* of no instance, and a + b changes neither a nor b.
C4_ArraysOwned ==
    [][ (op'.name \in {"caller", "__add__"}) =>
            \A i \in Insts : loads[i].alive =>
                /\ loads'[i] = loads[i]
                /\ heap'[loads'[i]._hourly_heating_load] = raw_heating(loads[i])
                /\ heap'[loads'[i]._hourly_cooling_load] = raw_cooling(loads[i]) ]_vars

\* the view of a raw array the data model describes: every hour plus add,
\* rotated to the start month
View(L, raw, add) ==
    [k \in Hours |->
        Num(raw.elems[((k - 1 + SumTo(UPM(all_months_equal), L.start_month - 1))
                          % HoursPerYear) + 1].v + add)]

\* C5: whatever containers the loads were set with, heating_load[i] is
\* raw_heating[(i + start_hour) mod HoursPerYear] + dhw / HoursPerYear and
\* cooling_load[i] is raw_cooling[(i + start_hour) mod HoursPerYear].
C5_RotatedViews ==
    (op.name \in {"hourly_heating_load", "hourly_cooling_load"} /\ WellFormed) =>
        LET L == loads[op.i]
        IN  /\ ret.tag = "ok"
            /\ ret.val.elems =
                   IF op.name = "hourly_heating_load"
                   THEN View(L, raw_heating(L), L.dhw \div HoursPerYear)
                   ELSE View(L, raw_cooling(L), 0)

\* sum(baseload_cooling) - sum(baseload_heating), read from the accessors
ContractImbalance(L) ==
    SubE(np_sum(baseload_cooling(L).val.elems), np_sum(baseload_heating(L).val.elems))

\* C7: the imbalance of the hourly class is sum(baseload_cooling) -
\* sum(baseload_heating); it is negative when cooling is all zero and
\* heating has a positive total, positive in the symmetric case.
C7_ImbalanceAgrees ==
    (op.name = "imbalance" /\ WellFormed) =>
        LET L == loads[op.i]
            heat == np_sum(raw_heating(L).elems).v + L.dhw
            cool == np_sum(raw_cooling(L).elems).v
        IN  /\ ret.tag = "ok"
            /\ baseload_cooling(L).tag = "ok"
            /\ baseload_heating(L).tag = "ok"
            /\ ret.val = ContractImbalance(L)
            /\ (cool = 0 /\ heat > 0) => ret.val.v < 0
            /\ (heat = 0 /\ cool > 0) => ret.val.v > 0

\* C8: x == y is true iff both are hourly loads with identical rotated
\* cooling arrays, identical rotated heating arrays (DHW included) and the
\* same simulation period; it is reflexive and symmetric, and false for an
\* object that is no hourly load.
C8_Equality ==
    (op.name = "__eq__" /\ nmut = 0) =>
        IF op.j = 0 THEN ret.tag = "ok" /\ ret.val = FALSE
        ELSE LET x == loads[op.i]
                 y == loads[op.j]
             IN  /\ ret.tag = "ok"
                 /\ ret.val =
                        (/\ View(x, raw_cooling(x), 0) = View(y, raw_cooling(y), 0)
                         /\ View(x, raw_heating(x), x.dhw \div HoursPerYear)
                                = View(y, raw_heating(y), y.dhw \div HoursPerYear)
                         /\ x.simulation_period = y.simulation_period)
                 /\ op.i = op.j => ret.val = TRUE
                 /\ __eq__(y, x) = ret

\* C9: _check_input raises for no candidate; it returns a boolean, true iff
\* the candidate is a one-level sequence of HoursPerYear numbers whose
\* minimum is >= 0.
C9_CheckInputTotal ==
    op.name = "_check_input" =>
        /\ ret.tag = "ok"
        /\ ret.val = ValidLoad(arg)

\* C10: a + b with b no hourly load returns what b's add operation returns
\* for the load; when b has no add operation, or its add operation rejects
\* or declines the load, the addition fails with a TypeError.
C10_AddOtherOperand ==
    (op.name = "__add__" /\ op.j = 0) =>
        IF op.other = "combines"
        THEN ret.tag = "ok" /\ ret.val.kind = "OtherLoad"
        ELSE ret.tag = "TypeError"

\* C6: in both calendar modes the months partition the hours of the year,
\* resample_to_monthly returns <<peak, baseload>> with peak[m] the maximum
\* and baseload[m] the sum of the hours of month m, and the baseloads add
\* up to the sum of the series.
C6_ResamplePartitions ==
    op.name = "resample_to_monthly" =>
        LET hpm == UPM(all_months_equal)
            peak == ret.val[1]
            base == ret.val[2]
        IN  /\ Len(peak) = NMonths /\ Len(base) = NMonths
            /\ \A h \in Hours : Cardinality({m \in 1..NMonths : h \in MonthHours(hpm, m)}) = 1
            /\ \A m \in 1..NMonths :
                   /\ peak[m] = Num(MaxOver(arg.elems, MonthHours(hpm, m)))
                   /\ base[m] = Num(SumOver(arg.elems, MonthHours(hpm, m)))
            /\ SumTo([m \in 1..NMonths |-> base[m].v], NMonths) = SumOver(arg.elems, Hours)

\* a series resampled by the calendar's unequal months, its peaks differing
\* between months and a baseload above its peak
C6_Witness ==
    /\ op.name = "resample_to_monthly"
    /\ ~all_months_equal
    /\ ret.val[1][1] # ret.val[1][2]
    /\ ret.val[2][1].v > ret.val[1][1].v

\* the calendar month that entry i of a monthly view stands for when the
\* year starts in month m
CalendarMonth(m, i) == ((m - 1 + i - 1) % NMonths) + 1

\* C11: under the calendar of unequal months and for every start month m,
\* entry i of baseload_heating / baseload_cooling is the sum, and entry i of
\* peak_heating / peak_cooling the maximum, of the hourly values (the DHW
\* share included in heating) of calendar month ((m - 1 + i) mod NMonths) + 1.
C11_MonthlyViewsAligned ==
    (op.name \in {"baseload_heating", "baseload_cooling", "peak_heating", "peak_cooling"}
        /\ ~all_months_equal) =>
        LET L == loads[op.i]
            heating == op.name \in {"baseload_heating", "peak_heating"}
            share == IF heating THEN L.dhw \div HoursPerYear ELSE 0
            raw == IF heating THEN raw_heating(L) ELSE raw_cooling(L)
            hourly == [h \in Hours |-> Num(raw.elems[h].v + share)]
        IN  /\ ret.tag = "ok"
            /\ Len(ret.val.elems) = NMonths
            /\ \A i \in 1..NMonths :
                   LET month == MonthHours(UPM(FALSE), CalendarMonth(L.start_month, i))
                   IN  ret.val.elems[i] =
                           IF op.name \in {"baseload_heating", "baseload_cooling"}
                           THEN Num(SumOver(hourly, month))
                           ELSE Num(MaxOver(hourly, month))
====
